---- MODULE Spec2Model ----
(***************************************************************************)
(* European option pricing engine (src/bindings.cpp): the option contract, *)
(* the Black-Scholes, Monte Carlo and binomial pricers, and the host that  *)
(* constructs them and calls price().                                      *)
(*                                                                         *)
(* A C++ double is modelled as a decimal fixed-point number with the IEEE  *)
(* special values: a record [k, v] with k = "fin" (v is the value times    *)
(* Scale, every operation rounding to the nearest unit), k = "inf" (v is   *)
(* the sign) or k = "nan".  Results beyond FinMax overflow to an infinity, *)
(* as a double's do beyond DBL_MAX.                                        *)
(***************************************************************************)
EXTENDS Integers, Sequences, FiniteSets, TLC

\* One unit of a double is 1/Scale.
Scale == 1000

\* The largest finite magnitude (in units): products stay inside TLC's integers.
FinMax == 2 * Scale * Scale

(***************************************************************************)
(* double arithmetic                                                       *)
(***************************************************************************)
Abs(x) == IF x < 0 THEN -x ELSE x

Sgn(x) == IF x < 0 THEN -1 ELSE IF x > 0 THEN 1 ELSE 0

\* n/d rounded to the nearest integer, halves away from zero (d # 0).
RoundDiv(n, d) == Sgn(n) * Sgn(d) * ((Abs(n) + (Abs(d) \div 2)) \div Abs(d))

NaN == [k |-> "nan", v |-> 0]

PInf == [k |-> "inf", v |-> 1]

NInf == [k |-> "inf", v |-> -1]

Inf(s) == IF s < 0 THEN NInf ELSE PInf

\* A finite result of v units, or the infinity it overflows to.
Fin(v) == IF Abs(v) > FinMax THEN Inf(v) ELSE [k |-> "fin", v |-> v]

IsNaN(a) == a.k = "nan"

IsInf(a) == a.k = "inf"

IsFin(a) == a.k = "fin"

Zero == Fin(0)

One == Fin(Scale)

Half == Fin(Scale \div 2)

\* An int converted to double.
FInt(n) == Fin(n * Scale)

FNeg(a) == IF IsNaN(a) THEN NaN ELSE [k |-> a.k, v |-> -a.v]

FAdd(a, b) ==
  IF IsNaN(a) \/ IsNaN(b) THEN NaN
  ELSE IF IsInf(a) /\ IsInf(b) THEN (IF a.v = b.v THEN a ELSE NaN)
  ELSE IF IsInf(a) THEN a
  ELSE IF IsInf(b) THEN b
  ELSE Fin(a.v + b.v)

FSub(a, b) == FAdd(a, FNeg(b))

FMul(a, b) ==
  IF IsNaN(a) \/ IsNaN(b) THEN NaN
  ELSE IF IsInf(a) \/ IsInf(b)
       THEN (IF a.v = 0 \/ b.v = 0 THEN NaN ELSE Inf(Sgn(a.v) * Sgn(b.v)))
  ELSE IF a.v = 0 \/ b.v = 0 THEN Zero
  ELSE IF Abs(a.v) > (FinMax * Scale) \div Abs(b.v) THEN Inf(Sgn(a.v) * Sgn(b.v))
  ELSE Fin(RoundDiv(a.v * b.v, Scale))

\* A zero divisor is +0.0: every zero the program divides by is a positive one.
FDiv(a, b) ==
  IF IsNaN(a) \/ IsNaN(b) THEN NaN
  ELSE IF IsInf(a) /\ IsInf(b) THEN NaN
  ELSE IF IsInf(a) THEN Inf(a.v * (IF b.v < 0 THEN -1 ELSE 1))
  ELSE IF IsInf(b) THEN Zero
  ELSE IF b.v = 0 THEN (IF a.v = 0 THEN NaN ELSE Inf(a.v))
  ELSE Fin(RoundDiv(a.v * Scale, b.v))

\* a < b on doubles: false when either is NaN.
FLt(a, b) ==
  IF IsNaN(a) \/ IsNaN(b) THEN FALSE
  ELSE IF IsInf(a) THEN a.v < 0 /\ ~(IsInf(b) /\ b.v < 0)
  ELSE IF IsInf(b) THEN b.v > 0
  ELSE a.v < b.v

FLe(a, b) == ~IsNaN(a) /\ ~IsNaN(b) /\ ~FLt(b, a)

\* std::max(a, b) is (a < b) ? b : a.
FMax(a, b) == IF FLt(a, b) THEN b ELSE a

(***************************************************************************)
(* <cmath>: std::exp, std::log, std::sqrt, std::erfc, std::pow             *)
(***************************************************************************)
\* e^k in units for k = -8 .. 7, at index k + 9.
ExpTable ==
  << 0, 1, 2, 7, 18, 50, 135, 368,
     1000, 2718, 7389, 20086, 54598, 148413, 403429, 1096633 >>

\* The Taylor series of e^(f/Scale) from term j on, in Horner form, in units.
RECURSIVE ExpSeries(_, _)
ExpSeries(f, j) ==
  IF j > 9 THEN Scale
  ELSE Scale + RoundDiv(f * ExpSeries(f, j + 1), j * Scale)

\* std::exp: e^k from the table times the series of the fractional part.
FExp(a) ==
  IF IsNaN(a) THEN NaN
  ELSE IF IsInf(a) THEN (IF a.v > 0 THEN PInf ELSE Zero)
  ELSE LET k == a.v \div Scale
           f == a.v - k * Scale
       IN  IF k > 7 THEN PInf
           ELSE IF k < -8 THEN Zero
           ELSE FMul(Fin(ExpTable[k + 9]), Fin(ExpSeries(f, 1)))

\* ln(y/Scale) in units for Scale <= y < e*Scale: 2*atanh((y-1)/(y+1)) as a series.
LogSeries(y) ==
  LET z  == RoundDiv((y - Scale) * Scale, y + Scale)
      z2 == RoundDiv(z * z, Scale)
      z3 == RoundDiv(z * z2, Scale)
      z5 == RoundDiv(z3 * z2, Scale)
      z7 == RoundDiv(z5 * z2, Scale)
      z9 == RoundDiv(z7 * z2, Scale)
  IN  2 * z + RoundDiv(2 * z3, 3) + RoundDiv(2 * z5, 5)
        + RoundDiv(2 * z7, 7) + RoundDiv(2 * z9, 9)

\* ln(y/Scale) in units for y > 0: the argument is brought into [1, e) first.
RECURSIVE LogUnits(_)
LogUnits(y) ==
  IF y >= ExpTable[10] THEN Scale + LogUnits(RoundDiv(y * Scale, ExpTable[10]))
  ELSE IF y < Scale THEN LogUnits(RoundDiv(y * ExpTable[10], Scale)) - Scale
  ELSE LogSeries(y)

\* std::log
FLog(a) ==
  IF IsNaN(a) THEN NaN
  ELSE IF IsInf(a) THEN (IF a.v > 0 THEN PInf ELSE NaN)
  ELSE IF a.v < 0 THEN NaN
  ELSE IF a.v = 0 THEN NInf
  ELSE Fin(LogUnits(a.v))

\* The integer square root of n >= 0 by Newton's iteration from the guess r.
RECURSIVE ISqrt(_, _)
ISqrt(n, r) ==
  LET next == (r + (n \div r)) \div 2
  IN  IF next >= r THEN r ELSE ISqrt(n, next)

\* std::sqrt, to the nearest unit.
FSqrt(a) ==
  IF IsNaN(a) THEN NaN
  ELSE IF IsInf(a) THEN (IF a.v > 0 THEN PInf ELSE NaN)
  ELSE IF a.v < 0 THEN NaN
  ELSE IF a.v = 0 THEN Zero
  ELSE LET n == a.v * Scale
           r == ISqrt(n, n)
       IN  Fin(IF n - r * r > r THEN r + 1 ELSE r)

\* erfc(i/8) in units for i = 0 .. 28, at index i + 1; erfc is 0 from 3.5 on.
ErfcTable ==
  << 1000, 860, 724, 596, 480, 377, 289, 216, 157, 112, 77, 52, 34, 22, 13,
     8, 5, 3, 1, 1, 0, 0, 0, 0, 0, 0, 0, 0, 0 >>

\* erfc(y/Scale) in units for y >= 0: the table, interpolated linearly.
ErfcUnits(y) ==
  LET step == Scale \div 8
      i    == y \div step
      f    == y - i * step
  IN  IF i >= 28 THEN 0
      ELSE ErfcTable[i + 1]
             - RoundDiv((ErfcTable[i + 1] - ErfcTable[i + 2]) * f, step)

\* std::erfc, with erfc(-y) = 2 - erfc(y).
FErfc(a) ==
  IF IsNaN(a) THEN NaN
  ELSE IF IsInf(a) THEN (IF a.v > 0 THEN Zero ELSE Fin(2 * Scale))
  ELSE IF a.v >= 0 THEN Fin(ErfcUnits(a.v))
  ELSE Fin(2 * Scale - ErfcUnits(-a.v))

\* std::pow(b, n) for an integer exponent n >= 0; pow(b, 0) is 1 for every b.
RECURSIVE FPow(_, _)
FPow(b, n) == IF n <= 0 THEN One ELSE FMul(FPow(b, n - 1), b)

\* M_SQRT1_2
SQRT1_2 == Fin(RoundDiv(707107 * Scale, 1000000))

(***************************************************************************)
(* EuropeanOption                                                          *)
(***************************************************************************)
OptionType == {"Call", "Put"}

\* EuropeanOption's constructor: the six values are stored as given.
EuropeanOption(S_, K_, T_, r_, sigma_, type_) ==
  [S |-> S_, K |-> K_, T |-> T_, r |-> r_, sigma |-> sigma_, type |-> type_]

\* A payoff with the two kinds exchanged.
payoffSwapped(o, ST) ==
  IF o.type = "Put" THEN FMax(FSub(ST, o.K), Zero)
  ELSE FMax(FSub(o.K, ST), Zero)

\* EuropeanOption::payoff
payoff(o, ST) ==
  IF o.type = "Call" THEN FMax(FSub(ST, o.K), Zero)
  ELSE FMax(FSub(o.K, ST), Zero)

(***************************************************************************)
(* BlackScholesModel                                                       *)
(***************************************************************************)
norm_cdf(x) == FMul(Half, FErfc(FMul(FNeg(x), SQRT1_2)))

BSd1(o) ==
  FDiv(FAdd(FLog(FDiv(o.S, o.K)),
            FMul(FAdd(o.r, FMul(FMul(Half, o.sigma), o.sigma)), o.T)),
       FMul(o.sigma, FSqrt(o.T)))

BSd2(o) == FSub(BSd1(o), FMul(o.sigma, FSqrt(o.T)))

\* The Call branch with its two terms the other way round.
BSCallReversed(o, d1, d2) ==
  FSub(FMul(FMul(o.K, FExp(FMul(FNeg(o.r), o.T))), norm_cdf(d2)),
       FMul(o.S, norm_cdf(d1)))

\* The Call branch of BlackScholesModel::price.
BSCall(o, d1, d2) ==
  FSub(FMul(o.S, norm_cdf(d1)),
       FMul(FMul(o.K, FExp(FMul(FNeg(o.r), o.T))), norm_cdf(d2)))

\* The Put branch with norm_cdf(-d1) for both terms.
BSPutSameN(o, d1, d2) ==
  FSub(FMul(FMul(o.K, FExp(FMul(FNeg(o.r), o.T))), norm_cdf(FNeg(d1))),
       FMul(o.S, norm_cdf(FNeg(d1))))

\* The Put branch of BlackScholesModel::price.
BSPut(o, d1, d2) ==
  FSub(FMul(FMul(o.K, FExp(FMul(FNeg(o.r), o.T))), norm_cdf(FNeg(d2))),
       FMul(o.S, norm_cdf(FNeg(d1))))

\* BlackScholesModel::price
BlackScholesPrice(o) ==
  IF o.type = "Call" THEN BSCall(o, BSd1(o), BSd2(o))
  ELSE BSPut(o, BSd1(o), BSd2(o))

(***************************************************************************)
(* MonteCarloModel                                                         *)
(***************************************************************************)
\* The states of the generator std::mt19937, reduced to a small cycle.
GenStates == 8

\* One step of the generator.
GenNext(g) == (5 * g + 3) % GenStates

\* The standard normal deviate dist(gen) returns in generator state g.
GenNormal(g) == Fin(((g % 5) - 2) * (Scale \div 2))

\* The terminal price of one draw Z.
MCTerminal(o, Z) ==
  FMul(o.S,
       FExp(FAdd(FMul(FSub(o.r, FMul(FMul(Half, o.sigma), o.sigma)), o.T),
                 FMul(FMul(o.sigma, FSqrt(o.T)), Z))))

\* The value MonteCarloModel::price returns from the sum of N payoffs.
MCResult(o, sum, n) == FMul(FExp(FMul(FNeg(o.r), o.T)), FDiv(sum, FInt(n)))

(***************************************************************************)
(* BinomialModel                                                           *)
(***************************************************************************)
\* dt, u, d, p and discount as BinomialModel::price computes them.
BinLocals(o, n) ==
  LET dt == FDiv(o.T, FInt(n))
      u  == FExp(FMul(o.sigma, FSqrt(dt)))
      d  == FDiv(One, u)
  IN  [dt |-> dt, u |-> u, d |-> d,
       p |-> FDiv(FSub(FExp(FMul(o.r, dt)), d), FSub(u, d)),
       discount |-> FExp(FMul(FNeg(o.r), dt))]

\* The underlying's price at terminal node i of an n-step tree.
BinTerminalPrice(o, l, n, i) ==
  FMul(FMul(o.S, FPow(l.u, n - i)), FPow(l.d, i))

\* The neighbour read is the entry itself.
BinNeighbourSelf(i) == i

\* The index of the later-step value read beside option_values[i].
BinNeighbour(i) == i + 1

\* One backward-induction assignment to option_values[i].
BinUpdate(l, vals, i) ==
  [vals EXCEPT ![i] =
     FMul(l.discount,
          FAdd(FMul(l.p, vals[i]),
               FMul(FSub(One, l.p), vals[BinNeighbour(i)])))]

(***************************************************************************)
(* The host: the values it builds contracts and pricers from               *)
(***************************************************************************)
\* The largest sample or step count the host configures.
MaxN == 3

\* The largest seed std::random_device hands out.
MaxSeed == 3

\* The changes the comparing host makes after the call it compares with.
MaxEdits == 1

\* The threads that call price(); Main is the host's own.
Threads == {1, 2}

Main == CHOOSE t \in Threads : \A u \in Threads : t <= u

SValues == {Fin(-Scale), Zero, One, Fin(2 * Scale)}

KValues == {Zero, One, Fin(2 * Scale)}

TValues == {Fin(-Scale), Zero, One}

RValues == {Fin(-Scale), Zero, One}

SigmaValues == {Zero, Half, One}

\* The counts a pricer is constructible with: init<int> takes any int.
Counts == -2 .. MaxN

Contracts ==
  { EuropeanOption(S_, K_, T_, r_, sigma_, type_) :
      S_ \in SValues, K_ \in KValues, T_ \in TValues, r_ \in RValues,
      sigma_ \in SigmaValues, type_ \in OptionType }

\* The three pricers; BlackScholesModel has no configuration.
Pricers ==
  {[kind |-> "BlackScholes", N |-> 0]}
    \cup {[kind |-> "MonteCarlo", N |-> n] : n \in Counts}
    \cup {[kind |-> "Binomial", N |-> n] : n \in Counts}

\* The data model's invariant: S, K, T and sigma strictly positive.
ValidContract(o) ==
  /\ FLt(Zero, o.S)
  /\ FLt(Zero, o.K)
  /\ FLt(Zero, o.T)
  /\ FLt(Zero, o.sigma)

\* A pricer whose count, if it has one, is positive.
ValidPricer(m) == m.kind = "BlackScholes" \/ m.N >= 1

\* What a read of option_values[0] from an empty vector may yield.
Garbage == {Zero, NaN, Fin(-Scale)}

(***************************************************************************)
(* State                                                                   *)
(***************************************************************************)
VARIABLES
  opt,            \* the EuropeanOption the host holds
  model,          \* the pricer the host holds: its kind and its member N
  pc,             \* where the running BinomialModel::price call stands
  i,              \* BinomialModel::price's loop variable i
  step,           \* BinomialModel::price's loop variable step
  option_values,  \* BinomialModel::price's vector
  lat,            \* BinomialModel::price's dt, u, d, p, discount
  mcpc,           \* per thread: where its MonteCarloModel::price call stands
  mcself,         \* per thread: the pricer its call runs on (this)
  mci,            \* per thread: the loop variable i of its call
  mcseed,         \* per thread: what std::random_device gave its call
  payoff_sum,     \* per storage instance: the accumulator payoff_sum
  gen,            \* per storage instance: the generator gen
  ret,            \* per thread: how its last call ended
  pay,            \* the last payoff() evaluation: its argument and result
  work,           \* per thread: draws, sums, terminal payoffs, updates done
  mode,           \* how the host drives the engine
  first,          \* the earlier call the host compares results with
  edits,          \* the host's changes since that call
  later           \* whether a call has started since that call

vars ==
  << opt, model, pc, i, step, option_values, lat, mcpc, mcself, mci, mcseed,
     payoff_sum, gen, ret, pay, work, mode, first, edits, later >>

binframe == << pc, i, step, option_values, lat >>

mcframe == << mcpc, mcself, mci, mcseed, payoff_sum, gen >>

host == << mode, first, edits, later >>

NoRet == [st |-> "none", val |-> Zero]

Returned(v) == [st |-> "value", val |-> v]

Thrown == [st |-> "throw", val |-> Zero]

Crashed == [st |-> "crash", val |-> Zero]

NoPay == [called |-> FALSE, ST |-> Zero, val |-> Zero]

NoWork == [draws |-> 0, sums |-> 0, terminal |-> 0, updates |-> 0]

NoLocals == [dt |-> Zero, u |-> Zero, d |-> Zero, p |-> Zero, discount |-> Zero]

NoPricer == [kind |-> "BlackScholes", N |-> 0]

NoCall ==
  [made |-> FALSE, opt |-> EuropeanOption(One, One, One, Zero, One, "Call"),
   model |-> NoPricer, seed |-> 0, val |-> Zero]

EmptyVector == [j \in {} |-> Zero]

\* A loop variable left as its storage held it.
LoopStartStale(stale) == stale

\* `int i = 0`: a loop variable starts at 0, whatever its storage held before.
LoopStart(stale) == 0

\* A loop condition off by one: `i <= N`.
MCLoopCondInclusive(k, n) == k <= n

\* `i < N`: whether MonteCarloModel::price's loop runs once more.
MCLoopCond(k, n) == k < n

\* One instance shared by every call, as a `static` local would be.
Static(t) == 1

\* The storage of a local of thread t's call: automatic, one instance per call.
Automatic(t) == t

\* The contract's S is overwritten with the terminal price.
ConstOptionWritten(o, ST) == [o EXCEPT !.S = ST]

\* `const EuropeanOption& opt` and `payoff(...) const`: the contract after a
\* step of price() that computed the terminal price ST.
ConstOption(o, ST) == o

\* No thread is inside price().
HostIdle == pc = "idle" /\ \A t \in Threads : mcpc[t] = "idle"

\* Thread t may enter price(): the host calls one price() at a time on its
\* own thread, unless it runs its calls on several threads.
MayCall(t) ==
  IF mode = "threads" THEN mcpc[t] = "idle" ELSE t = Main /\ HostIdle

\* A thread enters price(): the host notes whether the call follows the one
\* it compares with.
Entered ==
  /\ later' = (later \/ first.made)
  /\ UNCHANGED << mode, first, edits >>

\* A call on thread t, seeded with seed if it draws, returns v: the comparing
\* host may keep a call as the one it compares later ones with.
Kept(t, seed, v) ==
  \/ UNCHANGED first
  \/ /\ mode = "sweep"
     /\ t = Main
     /\ ~first.made
     /\ first' = [made |-> TRUE, opt |-> opt, model |-> model,
                  seed |-> seed, val |-> v]

\* The host changes the contract or the pricer: freely, or, once the comparing
\* host has a call to compare with, a bounded number of times; the comparing
\* host and the threaded one keep to valid contracts and pricers.
Edited ==
  /\ mode # "free" => ValidContract(opt') /\ ValidPricer(model')
  /\ mode = "threads" => model'.kind = "MonteCarlo"
  /\ IF first.made
     THEN edits < MaxEdits /\ edits' = edits + 1
     ELSE edits' = edits
  /\ UNCHANGED << mode, first, later >>

\* The host drops the results it holds.
Dropped ==
  /\ ret' = [t \in Threads |-> NoRet]
  /\ pay' = NoPay
  /\ work' = [t \in Threads |-> NoWork]

InitFrames ==
  /\ pc = "idle"
  /\ i = 0
  /\ step = 0
  /\ option_values = EmptyVector
  /\ lat = NoLocals
  /\ mcpc = [t \in Threads |-> "idle"]
  /\ mcself = [t \in Threads |-> NoPricer]
  /\ mci = [t \in Threads |-> 0]
  /\ mcseed = [t \in Threads |-> 0]
  /\ payoff_sum = [t \in Threads |-> Zero]
  /\ gen = [t \in Threads |-> 0]
  /\ ret = [t \in Threads |-> NoRet]
  /\ pay = NoPay
  /\ work = [t \in Threads |-> NoWork]
  /\ first = NoCall
  /\ edits = 0
  /\ later = FALSE

\* Any contract and any pricer the bindings construct; the host then edits
\* and calls as it likes.
Init ==
  /\ opt \in Contracts
  /\ model \in Pricers
  /\ mode = "free"
  /\ InitFrames

(***************************************************************************)
(* The host's operations on the objects (PYBIND11_MODULE)                  *)
(***************************************************************************)
\* def_readwrite: the host assigns one field of the contract, between calls.
SetField ==
  /\ HostIdle
  /\ \/ \E v \in SValues : opt' = [opt EXCEPT !.S = v]
     \/ \E v \in KValues : opt' = [opt EXCEPT !.K = v]
     \/ \E v \in TValues : opt' = [opt EXCEPT !.T = v]
     \/ \E v \in RValues : opt' = [opt EXCEPT !.r = v]
     \/ \E v \in SigmaValues : opt' = [opt EXCEPT !.sigma = v]
     \/ \E v \in OptionType : opt' = [opt EXCEPT !.type = v]
  /\ opt' # opt
  /\ model' = model
  /\ Edited
  /\ Dropped
  /\ UNCHANGED binframe
  /\ UNCHANGED mcframe

\* py::init<>, py::init<int>: the host constructs a pricer; N is stored as
\* given.  A pricer that calls are running on lives on beside the new one.
Construct ==
  /\ mode # "threads" => HostIdle
  /\ model' \in Pricers
  /\ model' # model
  /\ opt' = opt
  /\ Edited
  /\ IF mode = "threads" THEN UNCHANGED << ret, pay, work >> ELSE Dropped
  /\ UNCHANGED binframe
  /\ UNCHANGED mcframe

(***************************************************************************)
(* BlackScholesModel::price                                                *)
(***************************************************************************)
BSPrice ==
  /\ MayCall(Main)
  /\ model.kind = "BlackScholes"
  /\ ret' = [ret EXCEPT ![Main] = Returned(BlackScholesPrice(opt))]
  /\ pay' = NoPay
  /\ work' = [work EXCEPT ![Main] = NoWork]
  /\ later' = (later \/ first.made)
  /\ Kept(Main, 0, BlackScholesPrice(opt))
  /\ UNCHANGED << opt, model, mode, edits >>
  /\ UNCHANGED binframe
  /\ UNCHANGED mcframe

(***************************************************************************)
(* MonteCarloModel::price, called on thread t                              *)
(***************************************************************************)
\* Entry: payoff_sum = 0.0 and a generator seeded from std::random_device.
MCStart(t) ==
  /\ MayCall(t)
  /\ model.kind = "MonteCarlo"
  /\ mcself' = [mcself EXCEPT ![t] = model]
  /\ \E seed \in 0 .. MaxSeed :
       /\ mcseed' = [mcseed EXCEPT ![t] = seed]
       /\ gen' = [gen EXCEPT ![Automatic(t)] = seed]
  /\ payoff_sum' = [payoff_sum EXCEPT ![Automatic(t)] = Zero]
  /\ mci' = [mci EXCEPT ![t] = LoopStart(mci[t])]
  /\ mcpc' = [mcpc EXCEPT ![t] = "loop"]
  /\ ret' = [ret EXCEPT ![t] = NoRet]
  /\ pay' = NoPay
  /\ work' = [work EXCEPT ![t] = NoWork]
  /\ Entered
  /\ UNCHANGED << opt, model >>
  /\ UNCHANGED binframe

\* One iteration of the loop: a draw, its terminal price, its payoff, the sum.
MCDraw(t) ==
  /\ mcpc[t] = "loop"
  /\ MCLoopCond(mci[t], mcself[t].N)
  /\ LET ST == MCTerminal(opt, GenNormal(gen[Automatic(t)]))
     IN  /\ pay' = [called |-> TRUE, ST |-> ST, val |-> payoff(opt, ST)]
         /\ payoff_sum' =
              [payoff_sum EXCEPT
                 ![Automatic(t)] = FAdd(payoff_sum[Automatic(t)], payoff(opt, ST))]
         /\ opt' = ConstOption(opt, ST)
  /\ gen' = [gen EXCEPT ![Automatic(t)] = GenNext(gen[Automatic(t)])]
  /\ mci' = [mci EXCEPT ![t] = mci[t] + 1]
  /\ work' = [work EXCEPT ![t].draws = @ + 1, ![t].sums = @ + 1]
  /\ UNCHANGED << model, mcpc, mcself, mcseed, ret >>
  /\ UNCHANGED binframe
  /\ UNCHANGED host

\* The loop is over: the discounted mean is returned and the frame ends.
MCReturn(t) ==
  /\ mcpc[t] = "loop"
  /\ ~MCLoopCond(mci[t], mcself[t].N)
  /\ LET v == MCResult(opt, payoff_sum[Automatic(t)], mcself[t].N)
     IN  /\ ret' = [ret EXCEPT ![t] = Returned(v)]
         /\ Kept(t, mcseed[t], v)
  /\ mcpc' = [mcpc EXCEPT ![t] = "idle"]
  /\ mcself' = [mcself EXCEPT ![t] = NoPricer]
  /\ mci' = [mci EXCEPT ![t] = 0]
  /\ mcseed' = [mcseed EXCEPT ![t] = 0]
  /\ payoff_sum' = [payoff_sum EXCEPT ![Automatic(t)] = Zero]
  /\ gen' = [gen EXCEPT ![Automatic(t)] = 0]
  /\ UNCHANGED << opt, model, pay, work, mode, edits, later >>
  /\ UNCHANGED binframe

(***************************************************************************)
(* BinomialModel::price                                                    *)
(***************************************************************************)
\* The frame ends with the call: its locals other than i hold nothing
\* afterwards; i keeps the value the last loop left in it.
Discard ==
  /\ step' = 0
  /\ option_values' = EmptyVector
  /\ lat' = NoLocals
  /\ pc' = "idle"
  /\ i' = i

\* Entry, when N + 1 >= 0: the locals and a vector of N + 1 zeros.
BinStart ==
  /\ MayCall(Main)
  /\ model.kind = "Binomial"
  /\ model.N + 1 >= 0
  /\ lat' = BinLocals(opt, model.N)
  /\ option_values' = [j \in 0 .. model.N |-> Zero]
  /\ i' = LoopStart(i)
  /\ pc' = "terminal"
  /\ ret' = [ret EXCEPT ![Main] = NoRet]
  /\ pay' = NoPay
  /\ work' = [work EXCEPT ![Main] = NoWork]
  /\ Entered
  /\ UNCHANGED << opt, model, step >>
  /\ UNCHANGED mcframe

\* Entry, when N + 1 < 0: the vector's size converts to a huge size_t and
\* its constructor throws std::length_error.
BinStartThrow ==
  /\ MayCall(Main)
  /\ model.kind = "Binomial"
  /\ model.N + 1 < 0
  /\ ret' = [ret EXCEPT ![Main] = Thrown]
  /\ pay' = NoPay
  /\ work' = [work EXCEPT ![Main] = NoWork]
  /\ Entered
  /\ UNCHANGED << opt, model >>
  /\ UNCHANGED binframe
  /\ UNCHANGED mcframe

\* One iteration of the terminal-payoff loop.
BinTerminal ==
  /\ pc = "terminal"
  /\ i <= model.N
  /\ LET ST == BinTerminalPrice(opt, lat, model.N, i)
     IN  /\ pay' = [called |-> TRUE, ST |-> ST, val |-> payoff(opt, ST)]
         /\ option_values' = [option_values EXCEPT ![i] = payoff(opt, ST)]
         /\ opt' = ConstOption(opt, ST)
  /\ i' = i + 1
  /\ work' = [work EXCEPT ![Main].terminal = @ + 1]
  /\ UNCHANGED << model, pc, step, lat, ret >>
  /\ UNCHANGED mcframe
  /\ UNCHANGED host

\* The terminal loop is over: backward induction starts at step N - 1.
BinTerminalDone ==
  /\ pc = "terminal"
  /\ ~(i <= model.N)
  /\ step' = model.N - 1
  /\ i' = IF step' >= 0 THEN LoopStart(i) ELSE i
  /\ pc' = "backward"
  /\ UNCHANGED << opt, model, option_values, lat, ret, pay, work >>
  /\ UNCHANGED mcframe
  /\ UNCHANGED host

\* One iteration of the inner loop of the backward induction.
BinBackward ==
  /\ pc = "backward"
  /\ step >= 0
  /\ i <= step
  /\ option_values' = BinUpdate(lat, option_values, i)
  /\ i' = i + 1
  /\ work' = [work EXCEPT ![Main].updates = @ + 1]
  /\ UNCHANGED << opt, model, pc, step, lat, ret, pay >>
  /\ UNCHANGED mcframe
  /\ UNCHANGED host

\* The inner loop is over: the outer loop goes one step down.
BinStepDone ==
  /\ pc = "backward"
  /\ step >= 0
  /\ ~(i <= step)
  /\ step' = step - 1
  /\ i' = IF step' >= 0 THEN LoopStart(i) ELSE i
  /\ UNCHANGED << opt, model, pc, option_values, lat, ret, pay, work >>
  /\ UNCHANGED mcframe
  /\ UNCHANGED host

\* The outer loop is over: option_values[0] is returned.
BinReturn ==
  /\ pc = "backward"
  /\ ~(step >= 0)
  /\ 0 \in DOMAIN option_values
  /\ ret' = [ret EXCEPT ![Main] = Returned(option_values[0])]
  /\ Kept(Main, 0, option_values[0])
  /\ Discard
  /\ UNCHANGED << opt, model, pay, work, mode, edits, later >>
  /\ UNCHANGED mcframe

\* The same return from an empty vector: the read is out of bounds, so the
\* call yields whatever is there, or crashes.
BinReturnEmpty ==
  /\ pc = "backward"
  /\ ~(step >= 0)
  /\ 0 \notin DOMAIN option_values
  /\ \/ \E g \in Garbage : ret' = [ret EXCEPT ![Main] = Returned(g)]
     \/ ret' = [ret EXCEPT ![Main] = Crashed]
  /\ Discard
  /\ UNCHANGED << opt, model, pay, work >>
  /\ UNCHANGED mcframe
  /\ UNCHANGED host

(***************************************************************************)
(* Specifications                                                          *)
(***************************************************************************)
\* A step of a price() call.
PriceStep ==
  \/ BSPrice
  \/ \E t \in Threads : MCStart(t) \/ MCDraw(t) \/ MCReturn(t)
  \/ BinStart \/ BinStartThrow \/ BinTerminal \/ BinTerminalDone
  \/ BinBackward \/ BinStepDone \/ BinReturn \/ BinReturnEmpty

MCStartAny == \E t \in Threads : MCStart(t)

MCDrawAny == \E t \in Threads : MCDraw(t)

MCReturnAny == \E t \in Threads : MCReturn(t)

Next ==
  \/ SetField
  \/ Construct
  \/ BSPrice
  \/ MCStartAny
  \/ MCDrawAny
  \/ MCReturnAny
  \/ BinStart
  \/ BinStartThrow
  \/ BinTerminal
  \/ BinTerminalDone
  \/ BinBackward
  \/ BinStepDone
  \/ BinReturn
  \/ BinReturnEmpty

\* The engine under a host that builds any contract and any pricer.
Spec == Init /\ [][Next]_vars

\* The comparing host: valid contracts and pricers only; it keeps one call's
\* result, makes up to MaxEdits changes, and compares each later result.
SweepInit ==
  /\ opt \in {o \in Contracts : ValidContract(o)}
  /\ model \in {m \in Pricers : ValidPricer(m)}
  /\ mode = "sweep"
  /\ InitFrames

SweepNext ==
  \/ SetField
  \/ Construct
  \/ BSPrice
  \/ MCStartAny
  \/ MCDrawAny
  \/ MCReturnAny
  \/ BinStart
  \/ BinTerminal
  \/ BinTerminalDone
  \/ BinBackward
  \/ BinStepDone
  \/ BinReturn

SweepSpec == SweepInit /\ [][SweepNext]_vars

\* The threaded host: each thread calls price() on the MonteCarloModel the
\* host holds at that moment, on one contract that stays as it is.
ThreadsInit ==
  /\ opt \in {o \in Contracts : ValidContract(o) /\ o.K = One /\ o.sigma = Half}
  /\ model \in {m \in Pricers : m.kind = "MonteCarlo" /\ ValidPricer(m)}
  /\ mode = "threads"
  /\ InitFrames

ThreadsNext ==
  \/ Construct
  \/ MCStartAny
  \/ MCDrawAny
  \/ MCReturnAny

ThreadsSpec == ThreadsInit /\ [][ThreadsNext]_vars

(***************************************************************************)
(* The tree the lattice pricer is specified by, one array per step         *)
(***************************************************************************)
\* V(n, .): the payoffs at the n + 1 terminal nodes.
TreeTerminal(o, l, n) ==
  [j \in 0 .. n |-> payoff(o, FMul(FMul(o.S, FPow(l.u, n - j)), FPow(l.d, j)))]

\* V(s, .) for 0 <= s <= n, from V(s + 1, .), which is left as it is.
RECURSIVE TreeLevel(_, _, _, _)
TreeLevel(o, l, n, s) ==
  IF s >= n THEN TreeTerminal(o, l, n)
  ELSE LET up == TreeLevel(o, l, n, s + 1)
       IN  [j \in 0 .. s |->
              FMul(l.discount,
                   FAdd(FMul(l.p, up[j]), FMul(FSub(One, l.p), up[j + 1])))]

\* V(s, j) of the tree of the contract and pricer the host holds.
V(s, j) == TreeLevel(opt, BinLocals(opt, model.N), model.N, s)[j]

\* A BinomialModel with N >= 1 is in use.
Lattice == model.kind = "Binomial" /\ model.N >= 1

\* C1: with N >= 1, overwriting the one array in place computes the tree:
\* in the terminal loop the entries below i are the terminal payoffs; in the
\* backward loop at (step, i) the entries below i hold step's values and the
\* entries from i to step + 1 still hold those of step + 1; every index the
\* next iteration reads or writes lies in 0..N; the value returned is V(0,0).
C1_InPlaceIsTree ==
  Lattice =>
    /\ pc # "idle" => DOMAIN option_values = 0 .. model.N
    /\ pc = "terminal" =>
         /\ i \in 0 .. model.N + 1
         /\ \A j \in 0 .. i - 1 : option_values[j] = V(model.N, j)
    /\ pc = "backward" /\ step >= 0 =>
         /\ step \in 0 .. model.N - 1
         /\ i \in 0 .. step + 1
         /\ i <= step => {i, BinNeighbour(i)} \subseteq 0 .. model.N
         /\ \A j \in 0 .. step + 1 :
              option_values[j] = IF j < i THEN V(step, j) ELSE V(step + 1, j)
    /\ pc = "backward" /\ step < 0 => option_values[0] = V(0, 0)
    /\ pc = "idle" /\ ret[Main].st # "none" => ret[Main] = Returned(V(0, 0))

\* A three-step tree half way through a backward step, with a live value
\* about to be read from the entry above the one just overwritten.
C1_Witness ==
  /\ Lattice
  /\ ValidContract(opt)
  /\ model.N = 3
  /\ pc = "backward"
  /\ step = 1
  /\ i = 1
  /\ FLt(Zero, option_values[2])
  /\ option_values[0] # V(2, 0)

\* C2: payoff(ST) is max(ST - K, 0) for a Call and max(K - ST, 0) for a Put,
\* for every terminal price that is a number; it is a function of ST, K and
\* the kind, and is never negative.
C2_Payoff ==
  pay.called =>
    LET x == IF opt.type = "Call" THEN FSub(pay.ST, opt.K) ELSE FSub(opt.K, pay.ST)
    IN  /\ ~FLt(pay.val, Zero)
        /\ ~IsNaN(pay.ST) =>
             /\ FLe(Zero, pay.val)
             /\ FLe(x, pay.val)
             /\ pay.val \in {x, Zero}

\* Payoffs of both kinds, in and out of the money, have been computed.
C2_Witness ==
  /\ pay.called
  /\ opt.type = "Put"
  /\ IsFin(pay.ST)
  /\ FLt(pay.ST, opt.K)
  /\ pay.val = FSub(opt.K, pay.ST)
  /\ FLt(Zero, pay.val)

\* C3 (as the specification states it): a pricer with a count is never
\* constructed with N <= 0, and price() never runs with N <= 0.
C3_CountRejected ==
  /\ model.kind # "BlackScholes" => model.N >= 1
  /\ \A t \in Threads : mcpc[t] # "idle" => mcself[t].N >= 1
  /\ pc # "idle" => model.N >= 1
  /\ ret[Main].st \in {"none", "value"}

\* C4 (as the specification states it): a contract with a non-positive S, K,
\* T or sigma never yields a returned value.
C4_InvalidContractRejected ==
  \A t \in Threads : ret[t].st = "value" => ValidContract(opt)

\* C5: a step of price(), on any of the three pricers, leaves the contract's
\* six fields and the pricer's N as they were.
C5_PriceLeavesInputs ==
  [][PriceStep => opt' = opt /\ model' = model]_vars

\* A simulation call of the largest count has returned on a valid contract.
C5_Witness ==
  /\ ret[Main].st = "value"
  /\ model.kind = "MonteCarlo"
  /\ model.N = MaxN
  /\ work[Main].draws = MaxN
  /\ ValidContract(opt)

\* Thread Main is inside price().
InCall == pc # "idle" \/ mcpc[Main] # "idle"

\* The steps from the start of backward step s to the return: s + 1 updates
\* and the end of the inner loop for each of the steps s .. 0, and the return.
BackwardSteps(s) == ((s + 1) * (s + 2)) \div 2 + (s + 1) + 1

\* The steps the running call of thread Main has left, from the count alone.
Remaining ==
  IF mcpc[Main] = "loop" THEN (mcself[Main].N - mci[Main]) + 1
  ELSE IF pc = "terminal" THEN (model.N + 1 - i) + 1 + BackwardSteps(model.N - 1)
  ELSE IF pc = "backward" /\ step >= 0 THEN (step + 1 - i) + 1 + BackwardSteps(step - 1)
  ELSE IF pc = "backward" THEN 1
  ELSE 0

\* The work a returned call has done, when the pricer's count is N >= 1.
WorkDone ==
  ret[Main].st = "value" /\ ValidPricer(model) =>
    /\ model.kind = "MonteCarlo" =>
         work[Main].draws = model.N /\ work[Main].sums = model.N
    /\ model.kind = "Binomial" =>
         /\ work[Main].terminal = model.N + 1
         /\ 2 * work[Main].updates = model.N * (model.N + 1)

\* C6: with N >= 1 every call runs to its return by a number of steps the
\* count alone fixes: while a call is under way steps are left, each step of
\* it leaves exactly one less, and at the return the simulation has made
\* exactly N draws and N additions to the sum, the lattice exactly N + 1
\* terminal payoffs and N*(N+1)/2 updates, whatever the contract.
C6_WorkFixedByCount ==
  [][/\ WorkDone'
     /\ InCall /\ ValidPricer(model) =>
          Remaining > 0 /\ Remaining' = Remaining - 1]_vars

\* A lattice call with the largest count has returned after all its updates.
C6_Witness ==
  /\ ret[Main].st = "value"
  /\ model.kind = "Binomial"
  /\ model.N = MaxN
  /\ work[Main].terminal = MaxN + 1
  /\ 2 * work[Main].updates = MaxN * (MaxN + 1)

\* The sum of the payoffs of n draws taken one after the other from a generator
\* seeded with seed, added in the order drawn to acc.
RECURSIVE OwnSum(_, _, _, _)
OwnSum(o, seed, n, acc) ==
  IF n <= 0
  THEN acc
  ELSE OwnSum(o, GenNext(seed), n - 1,
              FAdd(acc, payoff(o, MCTerminal(o, GenNormal(seed)))))

\* C7: with several MonteCarloModel::price calls in progress at once, every
\* call that returns returns the discounted mean of the payoffs of exactly
\* its own N draws from its own generator, whatever the other calls did
\* meanwhile; the generator and the sum it leaves behind are discarded.
C7_OwnGeneratorAndSum ==
  [][\A t \in Threads :
       mcpc[t] = "loop" /\ mcpc'[t] = "idle" =>
         /\ ret'[t] =
              Returned(MCResult(opt,
                                OwnSum(opt, mcseed[t], mcself[t].N, Zero),
                                mcself[t].N))
         /\ work[t].draws = mcself[t].N
         /\ gen'[t] = 0 /\ payoff_sum'[t] = Zero]_vars

\* Thread 2 has returned a positive price while thread 1, seeded differently
\* enough to hold another sum, is still between two draws.
C7_Witness ==
  /\ mode = "threads"
  /\ ret[2].st = "value" /\ FLt(Zero, ret[2].val)
  /\ mcpc[1] = "loop" /\ mci[1] >= 1 /\ mci[1] < mcself[1].N
  /\ FLt(Zero, payoff_sum[1])
  /\ work[2].draws >= 2

\* The comparing host holds the result of a kept call and, for the contract
\* and pricer it holds now, the result of a call made after that one.
Compared ==
  /\ mode = "sweep"
  /\ first.made
  /\ later
  /\ ret[Main].st = "value"

SpotPair ==
  /\ Compared
  /\ model = first.model
  /\ opt = [first.opt EXCEPT !.S = opt.S]

\* The Call is dearer and the Put cheaper where S is larger.
SpotOrder ==
  LET lo == IF FLe(first.opt.S, opt.S) THEN first.val ELSE ret[Main].val
      hi == IF FLe(first.opt.S, opt.S) THEN ret[Main].val ELSE first.val
  IN  IF opt.type = "Call" THEN FLe(lo, hi) ELSE FLe(hi, lo)

\* C9 as stated: for each of the three pricers and two contracts that differ
\* only in S, S1 <= S2, the Call at S1 costs at most the Call at S2 and the
\* Put at S1 at least the Put at S2.
C9_MonotoneEveryPricer == SpotPair => SpotOrder

\* The up-move probability BinomialModel::price computes is one.
ProbabilityInRange ==
  LET p == BinLocals(opt, model.N).p
  IN  FLe(Zero, p) /\ FLe(p, One)

\* The call that is returning cannot be told from the kept one by anything
\* but S: a lattice has a probability for p, a simulation draws what the
\* kept call drew.
SameButSpot ==
  /\ model.kind = "Binomial" => ProbabilityInRange
  /\ model.kind = "MonteCarlo" =>
       mcpc[Main] = "loop" /\ mcseed[Main] = first.seed

\* C9: for two contracts that differ only in S, S1 <= S2, the Call at S1
\* costs at most the Call at S2 and the Put at S1 at least the Put at S2:
\* with BlackScholesModel; with BinomialModel when 0 <= p <= 1; and with
\* MonteCarloModel when the two calls draw the same numbers.
C9_MonotoneInSpot ==
  [][SpotPair' /\ SameButSpot => SpotOrder']_vars

\* A Call at S = 2 priced by a three-step lattice with 0 < p < 1 is dearer
\* than the kept one at S = 1.
C9_Witness ==
  /\ SpotPair
  /\ model.kind = "Binomial"
  /\ model.N = 3
  /\ ProbabilityInRange
  /\ opt.type = "Call"
  /\ first.opt.S = One
  /\ opt.S = Fin(2 * Scale)
  /\ FLt(first.val, ret[Main].val)

\* The rounding of the arithmetic that the two sides of the parity relation
\* may differ by: with the closed form, and after the steps of a lattice.
AnalyticTolerance == Scale \div 125
LatticeTolerance == Scale \div 50

\* The two calls compared were made on one pricer and on the Call and the
\* Put of one S, K, T, r, sigma.
ParityPair ==
  /\ Compared
  /\ model = first.model
  /\ opt.type # first.opt.type
  /\ opt = [first.opt EXCEPT !.type = opt.type]

\* Call - Put - (S - K * exp(-r * T)) for the pair compared.
ParityGap ==
  LET call == IF opt.type = "Call" THEN ret[Main].val ELSE first.val
      put == IF opt.type = "Put" THEN ret[Main].val ELSE first.val
      forward == FSub(opt.S, FMul(opt.K, FExp(FMul(FNeg(opt.r), opt.T))))
  IN  FSub(FSub(call, put), forward)

\* C10: the price of the Call less the price of the Put of the same
\* S, K, T, r, sigma is S - K * exp(-r * T): up to the rounding of the closed
\* form with BlackScholesModel, and up to the rounding of N steps with one
\* BinomialModel, whether or not p lies in [0, 1].
C10_PutCallParity ==
  ParityPair =>
    /\ model.kind = "BlackScholes" =>
         IsFin(ParityGap) /\ Abs(ParityGap.v) <= AnalyticTolerance
    /\ model.kind = "Binomial" =>
         IsFin(ParityGap) /\ Abs(ParityGap.v) <= LatticeTolerance

\* A Put priced by a three-step lattice whose p is not a probability, after
\* the Call, both finite and apart.
C10_Witness ==
  /\ ParityPair
  /\ model.kind = "Binomial"
  /\ model.N = 3
  /\ ~ProbabilityInRange
  /\ opt.type = "Put"
  /\ first.val # ret[Main].val
  /\ IsFin(ParityGap)

====
